---- MODULE Spec2Model ----
(***************************************************************************)
(* Model of the Load stage of the ETL pipeline (src/excel_load.py): the    *)
(* bounds checker, the sample classifier and grouper, and the assembly of  *)
(* the QC, Samples and Reported Results tables.                            *)
(*                                                                         *)
(* Representation.                                                         *)
(*   - A Python str is a sequence of one-character strings.                *)
(*   - An optional value is a sequence of length 0 (None / NaN / pd.NA)    *)
(*     or of length 1 (the value).                                         *)
(*   - A float is an exact rational [n, d] with d > 0, in lowest terms.    *)
(*   - A DataFrame is a sequence of rows; a row or an output record is a   *)
(*     function from column names to cells.                                *)
(***************************************************************************)
EXTENDS Integers, Sequences, FiniteSets, TLC

VARIABLES df, qc_df, samples_df, results_df, grouped, value, check_type, oob,
          qc_records, sheets, flagged, alert

vars == <<df, qc_df, samples_df, results_df, grouped, value, check_type, oob,
          qc_records, sheets, flagged, alert>>

----------------------------------------------------------------------------
(* Optional values *)

NA == << >>

Some(x) == <<x>>

IsNA(o) == o = NA

----------------------------------------------------------------------------
(* Exact arithmetic standing for Python floats *)

RECURSIVE Gcd(_, _)
Gcd(a, b) == IF b = 0 THEN a ELSE Gcd(b, a % b)

Abs(x) == IF x < 0 THEN -x ELSE x

Rat(n, d) ==
    LET g == Gcd(Abs(n), Abs(d))
        s == IF d < 0 THEN -1 ELSE 1
    IN  [n |-> (s * n) \div g, d |-> (s * d) \div g]

RatAdd(a, b) == Rat(a.n * b.d + b.n * a.d, a.d * b.d)

RatSub(a, b) == Rat(a.n * b.d - b.n * a.d, a.d * b.d)

RatMul(a, b) == Rat(a.n * b.n, a.d * b.d)

RatDiv(a, b) == Rat(a.n * b.d, a.d * b.n)

RatLess(a, b) == a.n * b.d < b.n * a.d

RatInt(k) == [n |-> k, d |-> 1]

----------------------------------------------------------------------------
(* Python str operations used by the loader *)

\* str.upper() on one character
UpperOf ==
    "a" :> "A" @@ "b" :> "B" @@ "c" :> "C" @@ "d" :> "D" @@ "e" :> "E" @@ "f" :> "F" @@
    "g" :> "G" @@ "h" :> "H" @@ "i" :> "I" @@ "j" :> "J" @@ "k" :> "K" @@ "l" :> "L" @@
    "m" :> "M" @@ "n" :> "N" @@ "o" :> "O" @@ "p" :> "P" @@ "q" :> "Q" @@ "r" :> "R" @@
    "s" :> "S" @@ "t" :> "T" @@ "u" :> "U" @@ "v" :> "V" @@ "w" :> "W" @@ "x" :> "X" @@
    "y" :> "Y" @@ "z" :> "Z"

\* the lower-case form the regex engine compares under (?i)
LowerOf ==
    "A" :> "a" @@ "B" :> "b" @@ "C" :> "c" @@ "D" :> "d" @@ "E" :> "e" @@ "F" :> "f" @@
    "G" :> "g" @@ "H" :> "h" @@ "I" :> "i" @@ "J" :> "j" @@ "K" :> "k" @@ "L" :> "l" @@
    "M" :> "m" @@ "N" :> "n" @@ "O" :> "o" @@ "P" :> "p" @@ "Q" :> "q" @@ "R" :> "r" @@
    "S" :> "s" @@ "T" :> "t" @@ "U" :> "u" @@ "V" :> "v" @@ "W" :> "w" @@ "X" :> "x" @@
    "Y" :> "y" @@ "Z" :> "z"

Digits == {"0", "1", "2", "3", "4", "5", "6", "7", "8", "9"}

Whitespace == {" "}

IndexIn(seq, c) == CHOOSE i \in 1..Len(seq) : seq[i] = c

CharUpper(c) == IF c \in DOMAIN UpperOf THEN UpperOf[c] ELSE c

CharLower(c) == IF c \in DOMAIN LowerOf THEN LowerOf[c] ELSE c

\* str.upper()
StrUpper(s) == [i \in 1..Len(s) |-> CharUpper(s[i])]

RECURSIVE LStrip(_)
LStrip(s) ==
    IF s # << >> /\ Head(s) \in Whitespace THEN LStrip(Tail(s)) ELSE s

RECURSIVE RStrip(_)
RStrip(s) ==
    IF s # << >> /\ s[Len(s)] \in Whitespace
    THEN RStrip(SubSeq(s, 1, Len(s) - 1))
    ELSE s

\* str.strip()
StrStrip(s) == RStrip(LStrip(s))

\* str.startswith(prefix)
StartsWith(s, prefix) ==
    /\ Len(s) >= Len(prefix)
    /\ SubSeq(s, 1, Len(prefix)) = prefix

----------------------------------------------------------------------------
(* Regular expressions of the loader.  A pattern is an anchored            *)
(* alternation ^(a1|a2|...)$ ; every alternative is a literal optionally    *)
(* followed by \d+ .  Under (?i) the regex engine compares characters by    *)
(* their lower-case form.                                                   *)

Lit(s) == [lit |-> s, digits |-> FALSE]

LitDigits(s) == [lit |-> s, digits |-> TRUE]

CharEq(a, b, ignorecase) ==
    IF ignorecase THEN CharLower(a) = CharLower(b) ELSE a = b

MatchAlt(s, alt, ignorecase) ==
    /\ Len(s) >= Len(alt.lit)
    /\ \A i \in 1..Len(alt.lit) : CharEq(s[i], alt.lit[i], ignorecase)
    /\ IF alt.digits
       THEN /\ Len(s) > Len(alt.lit)
            /\ \A i \in (Len(alt.lit) + 1)..Len(s) : s[i] \in Digits
       ELSE Len(s) = Len(alt.lit)

ReMatch(pattern, s) ==
    \E i \in 1..Len(pattern.alts) : MatchAlt(s, pattern.alts[i], pattern.ignorecase)

\* Series.str.match(pattern, na=False) on one cell
StrMatch(pattern, cell) == IF IsNA(cell) THEN FALSE ELSE ReMatch(pattern, cell[1])

\* Series.astype("string").str.strip() on one cell
StripCell(cell) == IF IsNA(cell) THEN NA ELSE Some(StrStrip(cell[1]))

\* the pattern of sample_groups without its (?i) flag
qc_pattern_case_sensitive ==
    [ignorecase |-> FALSE,
     alts |-> << Lit(<<"M", "D", "L">>), Lit(<<"I", "C", "V">>), Lit(<<"I", "C", "B">>),
                 LitDigits(<<"C", "C", "V">>), LitDigits(<<"C", "C", "B">>),
                 Lit(<<"R", "i", "n", "s", "e">>) >>]

\* r"(?i)^(MDL|ICV|ICB|CCV\d+|CCB\d+|Rinse)$"
qc_pattern ==
    [ignorecase |-> TRUE,
     alts |-> << Lit(<<"M", "D", "L">>), Lit(<<"I", "C", "V">>), Lit(<<"I", "C", "B">>),
                 LitDigits(<<"C", "C", "V">>), LitDigits(<<"C", "C", "B">>),
                 Lit(<<"R", "i", "n", "s", "e">>) >>]

\* r"(?i)^(MDL|ICV|CCV\d+)$"
qc_mask_pattern ==
    [ignorecase |-> TRUE,
     alts |-> << Lit(<<"M", "D", "L">>), Lit(<<"I", "C", "V">>),
                 LitDigits(<<"C", "C", "V">>) >>]

\* r"(?i)^(ICB|CCB\d+)$"
qcb_mask_pattern ==
    [ignorecase |-> TRUE,
     alts |-> << Lit(<<"I", "C", "B">>), LitDigits(<<"C", "C", "B">>) >>]

----------------------------------------------------------------------------
(* Load.is_out_of_bounds *)

DigitSeq == <<"0", "1", "2", "3", "4", "5", "6", "7", "8", "9">>

DigitVal(c) == IndexIn(DigitSeq, c) - 1

RECURSIVE DigitsToInt(_)
DigitsToInt(s) ==
    IF s = << >> THEN 0
    ELSE 10 * DigitsToInt(SubSeq(s, 1, Len(s) - 1)) + DigitVal(s[Len(s)])

RECURSIVE Pow10(_)
Pow10(k) == IF k = 0 THEN 1 ELSE 10 * Pow10(k - 1)

AllDigits(s) == \A i \in 1..Len(s) : s[i] \in Digits

\* A Python float: finite, or one of nan, inf, -inf
Fin(r) == [tag |-> "fin", num |-> r]

NaN == [tag |-> "nan", num |-> RatInt(0)]

Inf == [tag |-> "inf", num |-> RatInt(0)]

NegInf == [tag |-> "-inf", num |-> RatInt(0)]

\* val < bound and val > bound for a float val and an int bound
FloatLess(val, bound) ==
    \/ val.tag = "-inf"
    \/ val.tag = "fin" /\ RatLess(val.num, RatInt(bound))

FloatGreater(val, bound) ==
    \/ val.tag = "inf"
    \/ val.tag = "fin" /\ RatLess(RatInt(bound), val.num)

\* Cell values as xlwings hands them over
FloatCell(f) == [kind |-> "float", float |-> f, str |-> << >>]

StrCell(s) == [kind |-> "str", float |-> NaN, str |-> s]

NoneCell == [kind |-> "NoneType", float |-> NaN, str |-> << >>]

DatetimeCell == [kind |-> "datetime", float |-> NaN, str |-> << >>]

\* float(str): surrounding whitespace, an optional sign, decimal digits
\* with at most one point and at least one digit
ParseFloat(str) ==
    LET t == StrStrip(str)
        signed == t # << >> /\ t[1] \in {"+", "-"}
        body == IF signed THEN Tail(t) ELSE t
        dots == {i \in 1..Len(body) : body[i] = "."}
        dot == IF dots = {} THEN Len(body) + 1 ELSE CHOOSE i \in dots : TRUE
        ip == SubSeq(body, 1, dot - 1)
        fp == SubSeq(body, dot + 1, Len(body))
        ok == /\ Cardinality(dots) <= 1
              /\ AllDigits(ip) /\ AllDigits(fp)
              /\ Len(ip) + Len(fp) >= 1
        mag == Rat(DigitsToInt(ip) * Pow10(Len(fp)) + DigitsToInt(fp), Pow10(Len(fp)))
    IN  IF ~ok THEN [exc |-> "ValueError", val |-> NaN]
        ELSE [exc |-> "none",
              val |-> Fin(IF signed /\ t[1] = "-" THEN RatSub(RatInt(0), mag) ELSE mag)]

\* float(value)
ToFloat(v) ==
    CASE v.kind = "float" -> [exc |-> "none", val |-> v.float]
      [] v.kind = "str" -> ParseFloat(v.str)
      [] OTHER -> [exc |-> "TypeError", val |-> NaN]

FloatLessEq(val, bound) == FloatLess(val, bound) \/ val = Fin(RatInt(bound))

\* is_out_of_bounds with the lower QC_R limit taken as out of bounds (val <= 90)
is_out_of_bounds_inclusive(v, ct) ==
    LET f == ToFloat(v)
        val == f.val
    IN  IF f.exc \in {"ValueError", "TypeError"} THEN [exc |-> "none", ret |-> FALSE]
        ELSE IF ct = "QC_R"
             THEN [exc |-> "none", ret |-> FloatLessEq(val, 90) \/ FloatGreater(val, 110)]
        ELSE IF ct = "MDL_R"
             THEN [exc |-> "none", ret |-> FloatLess(val, 45) \/ FloatGreater(val, 145)]
        ELSE IF ct = "RPD"
             THEN [exc |-> "none", ret |-> FloatGreater(val, 10)]
        ELSE [exc |-> "none", ret |-> FALSE]

is_out_of_bounds(v, ct) ==
    LET f == ToFloat(v)
        val == f.val
    IN  IF f.exc \in {"ValueError", "TypeError"} THEN [exc |-> "none", ret |-> FALSE]
        ELSE IF ct = "QC_R"
             THEN [exc |-> "none", ret |-> FloatLess(val, 90) \/ FloatGreater(val, 110)]
        ELSE IF ct = "MDL_R"
             THEN [exc |-> "none", ret |-> FloatLess(val, 45) \/ FloatGreater(val, 145)]
        ELSE IF ct = "RPD"
             THEN [exc |-> "none", ret |-> FloatGreater(val, 10)]
        ELSE [exc |-> "none", ret |-> FALSE]

----------------------------------------------------------------------------
(* Tables.  An input row has the columns Sample ID (optional str),          *)
(* Sample Type (str) and PPM (optional float).                              *)

Row(sid, stype, ppm) ==
    [c \in {"Sample ID", "Sample Type", "PPM"} |->
        IF c = "Sample ID" THEN sid ELSE IF c = "Sample Type" THEN Some(stype) ELSE ppm]

\* df["Sample ID"] = df["Sample ID"].astype("string").str.strip()
StripIds(rows) ==
    [i \in 1..Len(rows) |-> [rows[i] EXCEPT !["Sample ID"] = StripCell(@)]]

\* Series == sample_id on one cell; a comparison with pd.NA is NA, and a
\* boolean mask takes NA as False
EqMask(cell, sample_id) == ~IsNA(cell) /\ ~IsNA(sample_id) /\ cell = sample_id

\* the non-null PPM values of a group, in row order
PpmValues(rows) ==
    LET HasPpm(r) == ~IsNA(r["PPM"])
        kept == SelectSeq(rows, HasPpm)
    IN  [i \in 1..Len(kept) |-> kept[i]["PPM"][1]]

RECURSIVE RatSum(_)
RatSum(vals) ==
    IF vals = << >> THEN RatInt(0) ELSE RatAdd(Head(vals), RatSum(Tail(vals)))

----------------------------------------------------------------------------
(* Transform: the statistics engine and the row cleaner                     *)

\* Transform.clean_data: identifiers trimmed, no row dropped
clean_data(rows) == StripIds(rows)

\* Transform.calculate_mean_ppm: mean of the non-null PPM values, null if none
calculate_mean_ppm(rows) ==
    LET vals == PpmValues(rows)
    IN  IF vals = << >> THEN NA
        ELSE Some(RatDiv(RatSum(vals), RatInt(Len(vals))))

\* Transform.calculate_percent_R: mean / target * 100, null without a target
calculate_percent_R(rows, target) ==
    LET mean == calculate_mean_ppm(rows)
    IN  IF IsNA(mean) \/ IsNA(target) THEN NA
        ELSE IF target[1].n = 0 THEN NA
        ELSE Some(RatMul(RatDiv(mean[1], target[1]), RatInt(100)))

\* Transform.calculate_rpd: (max - min) / mean * 100, null for fewer than two
\* values or a null or zero mean
calculate_rpd(rows, mean) ==
    LET vals == PpmValues(rows)
        hi == CHOOSE i \in 1..Len(vals) : \A j \in 1..Len(vals) : ~RatLess(vals[i], vals[j])
        lo == CHOOSE i \in 1..Len(vals) : \A j \in 1..Len(vals) : ~RatLess(vals[j], vals[i])
    IN  IF Len(vals) < 2 \/ IsNA(mean) THEN NA
        ELSE IF mean[1].n = 0 THEN NA
        ELSE Some(RatMul(RatDiv(RatSub(vals[hi], vals[lo]), mean[1]), RatInt(100)))

\* Transform.convert_to_umol_per_L: mean / molecular weight, null for a null mean
convert_to_umol_per_L(mean, mw) ==
    IF IsNA(mean) THEN NA ELSE Some(RatDiv(mean[1], mw))

\* self.molecular_weight = 12.01057
molecular_weight == Rat(1201057, 100000)

----------------------------------------------------------------------------
(* Load: grouping *)

Ids(rows) == [i \in 1..Len(rows) |-> rows[i]["Sample ID"]]

RECURSIVE UniqueLoop(_, _, _)
UniqueLoop(ids, seen, ordered_ids) ==
    IF ids = << >> THEN ordered_ids
    ELSE IF Head(ids) \notin seen
         THEN UniqueLoop(Tail(ids), seen \cup {Head(ids)}, Append(ordered_ids, Head(ids)))
         ELSE UniqueLoop(Tail(ids), seen, ordered_ids)

\* get_unique_ordered_ids without the seen set: every row yields an identifier
get_unique_ordered_ids_no_seen(rows) == Ids(rows)

\* Load.get_unique_ordered_ids
get_unique_ordered_ids(rows) == UniqueLoop(Ids(rows), {}, << >>)

\* Load.build_sample_groups
build_sample_groups(rows, ordered_ids) ==
    [k \in 1..Len(ordered_ids) |->
        LET InGroup(r) == EqMask(r["Sample ID"], ordered_ids[k])
        IN  [sample_id |-> ordered_ids[k], group_df |-> SelectSeq(rows, InGroup)]]

\* sample_groups keeping the rows that match the QC pattern
SamplesOnlyKeepQc(cleaned) == StripIds(cleaned)

\* the samples_only frame of Load.sample_groups
SamplesOnly(cleaned) ==
    LET NotQc(r) == ~StrMatch(qc_pattern, r["Sample ID"])
    IN  SelectSeq(StripIds(cleaned), NotQc)

\* Load.sample_groups, on the frame the transformer holds
sample_groups(rows) ==
    LET samples_only == SamplesOnly(clean_data(rows))
        ordered_ids == get_unique_ordered_ids(samples_only)
    IN  [samples_only |-> samples_only,
         groups |-> build_sample_groups(samples_only, ordered_ids)]

----------------------------------------------------------------------------
(* Load: the QC table *)

QcColumns == {"Sample ID", "PPM C", "Mean ppm C", "%R", "%RPD", "Bounds"}

QcBoundsText == "MDL %R: 45-145%, ICV/CCV %R: 90-110%"

QcRecord(sid, ppm) ==
    [c \in QcColumns |-> IF c = "Sample ID" THEN sid ELSE IF c = "PPM C" THEN ppm ELSE NA]

\* the per-row records of one group
GroupRecords(group_df) ==
    [i \in 1..Len(group_df) |-> QcRecord(group_df[i]["Sample ID"], group_df[i]["PPM"])]

\* the target looked up by the identifier as written, without upper()
QcTargetAsWritten(sample_id) ==
    IF StartsWith(sample_id, <<"C", "C", "V">>) THEN Some(RatInt(10))
    ELSE IF sample_id = <<"M", "D", "L">> THEN Some(Rat(2, 10))
    ELSE IF sample_id = <<"I", "C", "V">> THEN Some(RatInt(18))
    ELSE NA

\* 10.0 if sample_id_upper.startswith("CCV") else qc_targets.get(sample_id_upper)
QcTarget(sample_id) ==
    LET sample_id_upper == StrUpper(sample_id)
    IN  IF StartsWith(sample_id_upper, <<"C", "C", "V">>) THEN Some(RatInt(10))
        ELSE IF sample_id_upper = <<"M", "D", "L">> THEN Some(Rat(2, 10))
        ELSE IF sample_id_upper = <<"I", "C", "V">> THEN Some(RatInt(18))
        ELSE NA

\* the summary put on the first record of the group instead of the last
QcGroupWithSummaryFirst(group_df, sample_id, add_bounds) ==
    LET mean_ppm == calculate_mean_ppm(group_df)
        percent_r == calculate_percent_R(group_df, QcTarget(sample_id[1]))
        rpd == calculate_rpd(group_df, mean_ppm)
        with_summary ==
            [GroupRecords(group_df) EXCEPT ![1] =
                [@ EXCEPT !["Mean ppm C"] = mean_ppm, !["%R"] = percent_r, !["%RPD"] = rpd]]
    IN  IF add_bounds
        THEN [with_summary EXCEPT ![1] = [@ EXCEPT !["Bounds"] = Some(QcBoundsText)]]
        ELSE [with_summary EXCEPT ![Len(with_summary)] = [@ EXCEPT !["Bounds"] = NA]]

\* one pass of the loop of build_qc_records over a group: the summary goes
\* to the last record, then the bounds text to the first record of the
\* first group
QcGroup(group_df, sample_id, add_bounds) ==
    LET mean_ppm == calculate_mean_ppm(group_df)
        percent_r == calculate_percent_R(group_df, QcTarget(sample_id[1]))
        rpd == calculate_rpd(group_df, mean_ppm)
        with_summary ==
            [GroupRecords(group_df) EXCEPT ![Len(group_df)] =
                [@ EXCEPT !["Mean ppm C"] = mean_ppm, !["%R"] = percent_r, !["%RPD"] = rpd]]
    IN  IF add_bounds
        THEN [with_summary EXCEPT ![1] = [@ EXCEPT !["Bounds"] = Some(QcBoundsText)]]
        ELSE [with_summary EXCEPT ![Len(with_summary)] = [@ EXCEPT !["Bounds"] = NA]]

RECURSIVE QcLoop(_, _, _, _, _)
QcLoop(ids, qc_samples, add_bounds_once, bounds_added, records) ==
    IF ids = << >> THEN records
    ELSE LET sample_id == Head(ids)
             InGroup(r) == EqMask(r["Sample ID"], sample_id)
             group_df == SelectSeq(qc_samples, InGroup)
             add_bounds == add_bounds_once /\ ~bounds_added
         IN  QcLoop(Tail(ids), qc_samples, add_bounds_once, bounds_added \/ add_bounds,
                    records \o QcGroup(group_df, sample_id, add_bounds))

\* Load.build_qc_records; Series.unique() keeps the order of first appearance
build_qc_records(qc_samples, add_bounds_once) ==
    QcLoop(UniqueLoop(Ids(qc_samples), {}, << >>), qc_samples, add_bounds_once, FALSE, << >>)

\* Load.build_qcb_records
build_qcb_records(qcb_samples) == GroupRecords(qcb_samples)

AverageId == <<"A", "v", "e", "r", "a", "g", "e">>

\* the Average record taken from the last QCB group alone
build_qcb_average_last_group(qcb_samples) ==
    LET InLast(r) == r["Sample ID"] = qcb_samples[Len(qcb_samples)]["Sample ID"]
    IN  QcRecord(Some(AverageId), calculate_mean_ppm(SelectSeq(qcb_samples, InLast)))

\* Load.build_qcb_average
build_qcb_average(qcb_samples) == QcRecord(Some(AverageId), calculate_mean_ppm(qcb_samples))

\* format_qc without the Sample Type filter
QcEligibleAnyType(rows) == StripIds(rows)

\* samples = df[df["Sample Type"] == "Samples"], identifiers trimmed
QcEligible(rows) ==
    LET IsSamples(r) == r["Sample Type"] = Some("Samples")
    IN  StripIds(SelectSeq(rows, IsSamples))

QcSamples(rows) ==
    LET qc_mask(r) == StrMatch(qc_mask_pattern, r["Sample ID"])
    IN  SelectSeq(QcEligible(rows), qc_mask)

QcbSamples(rows) ==
    LET qcb_mask(r) == StrMatch(qcb_mask_pattern, r["Sample ID"])
    IN  SelectSeq(QcEligible(rows), qcb_mask)

QcSeparator == [c \in QcColumns |-> NA]

\* Load.format_qc
format_qc(rows) ==
    build_qc_records(QcSamples(rows), TRUE)
        \o << QcSeparator >>
        \o build_qcb_records(QcbSamples(rows))
        \o << build_qcb_average(QcbSamples(rows)) >>

----------------------------------------------------------------------------
(* Load: the Samples and Reported Results tables *)

SamplesColumns == {"Sample ID", "PPM C", "Mean ppm C", "%RPD", "umol/L C", "Bounds"}

\* "RPD: \u226410%"; the sign U+2264 is written <= here
SamplesBoundsText == "RPD: <=10%"

ResultsColumns == {"Sample ID", "umol/L C"}

\* Load.build_sample_group_records
build_sample_group_records(group_df) ==
    [i \in 1..Len(group_df) |->
        [c \in SamplesColumns |->
            IF c = "Sample ID" THEN group_df[i]["Sample ID"]
            ELSE IF c = "PPM C" THEN group_df[i]["PPM"]
            ELSE NA]]

\* Load.add_summary_to_last_record; group_records[-1] of an empty list
\* raises IndexError
add_summary_to_last_record(group_df, group_records) ==
    LET mean_ppm == calculate_mean_ppm(group_df)
        rpd == calculate_rpd(group_df, mean_ppm)
        mean_umol == convert_to_umol_per_L(mean_ppm, molecular_weight)
    IN  IF group_records = << >>
        THEN [exc |-> "IndexError", records |-> << >>]
        ELSE [exc |-> "none",
              records |->
                [group_records EXCEPT ![Len(group_records)] =
                    [@ EXCEPT !["Mean ppm C"] = mean_ppm, !["%RPD"] = rpd,
                              !["umol/L C"] = mean_umol, !["Bounds"] = NA]]]

RECURSIVE SamplesLoop(_, _, _)
SamplesLoop(groups, bounds_added, records) ==
    IF groups = << >> THEN [exc |-> "none", records |-> records]
    ELSE LET group_df == Head(groups).group_df
             summed == add_summary_to_last_record(group_df,
                                                  build_sample_group_records(group_df))
             group_records ==
                IF ~bounds_added
                THEN [summed.records EXCEPT ![1] =
                        [@ EXCEPT !["Bounds"] = Some(SamplesBoundsText)]]
                ELSE summed.records
         IN  IF summed.exc # "none" THEN [exc |-> summed.exc, records |-> << >>]
             ELSE SamplesLoop(Tail(groups), TRUE, records \o group_records)

\* Load.format_samples
format_samples(rows) == SamplesLoop(sample_groups(rows).groups, FALSE, << >>)

\* Load.format_reported_results
format_reported_results(rows) ==
    LET groups == sample_groups(rows).groups
    IN  [exc |-> "none",
         records |->
            [k \in 1..Len(groups) |->
                [c \in ResultsColumns |->
                    IF c = "Sample ID" THEN groups[k].sample_id
                    ELSE convert_to_umol_per_L(calculate_mean_ppm(groups[k].group_df),
                                               molecular_weight)]]]

----------------------------------------------------------------------------
(* Load: the workbook.  A sheet holds the records written below its header  *)
(* row and the set of cells <<row, column>> whose font colour is red; row 1  *)
(* is the header row, so record k is on row k + 1.                           *)

\* substring in s
Contains(s, substring) ==
    \E k \in 0..(Len(s) - Len(substring)) :
        SubSeq(s, k + 1, k + Len(substring)) = substring

\* Sheet.clear_contents(): the values go, the formatting stays
clear_contents(ws) == [ws EXCEPT !.values = << >>]

\* one pass of the loop of write_sheets: an existing sheet is cleared, a
\* missing one is added, then the table is written from A1
WriteSheet(ws, table) ==
    LET target == IF ws.exists THEN clear_contents(ws)
                  ELSE [exists |-> TRUE, values |-> << >>, red |-> {}]
    IN  [target EXCEPT !.values = table]

\* the first three statements of write_sheets: the tables it holds when it
\* reaches sheets_to_write.  An exception of format_samples unwinds the
\* call: format_reported_results is not reached and no table is left
BuildTables(rows) ==
    LET samples == format_samples(rows)
    IN  IF samples.exc # "none"
        THEN [qc_df |-> [exc |-> "pending", records |-> << >>],
              samples_df |-> samples,
              results_df |-> [exc |-> "pending", records |-> << >>]]
        ELSE [qc_df |-> [exc |-> "none", records |-> format_qc(rows)],
              samples_df |-> samples,
              results_df |-> format_reported_results(rows)]

\* Load.write_sheets on the tables built: an exception of a format method
\* leaves every sheet as it was
write_sheets(workbook, built) ==
    [exc |-> built.samples_df.exc,
     workbook |->
        IF built.samples_df.exc # "none" THEN workbook
        ELSE [name \in DOMAIN workbook |->
                WriteSheet(workbook[name],
                           IF name = "QC" THEN built.qc_df.records
                           ELSE IF name = "Samples" THEN built.samples_df.records
                           ELSE built.results_df.records)]]

\* ws.range((row_idx, col)).value: an empty cell reads as None
CellValue(ws, row_idx, col) ==
    IF row_idx - 1 \in 1..Len(ws.values) THEN ws.values[row_idx - 1][col] ELSE NA

\* used_range.last_cell.row: the last row with a value or a format
MaxRow(ws) ==
    LET rows == {1 + Len(ws.values)} \cup {cell[1] : cell \in ws.red}
    IN  CHOOSE r \in rows : \A q \in rows : q <= r

\* every row of the QC sheet checked as QC_R
QcCheckTypeAlwaysQcR(sample_id) == "QC_R"

\* 'MDL_R' if sample_id and 'MDL' in str(sample_id).upper() else 'QC_R'
QcCheckType(sample_id) ==
    IF ~IsNA(sample_id) /\ Contains(StrUpper(sample_id[1]), <<"M", "D", "L">>)
    THEN "MDL_R" ELSE "QC_R"

\* the cells of the QC sheet that format_qc_sheet colours
QcSheetFlags(ws) ==
    {<<row_idx, "%R">> : row_idx \in
        {r \in 2..MaxRow(ws) :
            LET r_cell == CellValue(ws, r, "%R")
            IN  /\ ~IsNA(r_cell)
                /\ is_out_of_bounds(FloatCell(Fin(r_cell[1])),
                                    QcCheckType(CellValue(ws, r, "Sample ID"))).ret}}

\* Load.format_qc_sheet
format_qc_sheet(ws) ==
    IF ~ws.exists THEN ws ELSE [ws EXCEPT !.red = @ \cup QcSheetFlags(ws)]

\* the cells of the Samples sheet that format_samples_sheet colours
SamplesSheetFlags(ws) ==
    {<<row_idx, "%RPD">> : row_idx \in
        {r \in 2..MaxRow(ws) :
            LET rpd_cell == CellValue(ws, r, "%RPD")
            IN  /\ ~IsNA(rpd_cell)
                /\ is_out_of_bounds(FloatCell(Fin(rpd_cell[1])), "RPD").ret}}

\* Load.format_samples_sheet
format_samples_sheet(ws) ==
    IF ~ws.exists THEN ws ELSE [ws EXCEPT !.red = @ \cup SamplesSheetFlags(ws)]

\* Load.apply_formatting
apply_formatting(workbook) ==
    [workbook EXCEPT !["QC"] = format_qc_sheet(@),
                     !["Samples"] = format_samples_sheet(@)]

\* the cells coloured by one run of apply_formatting
FlagsOf(workbook) ==
    {<<"QC", cell[1], cell[2]>> : cell \in QcSheetFlags(workbook["QC"])}
        \cup {<<"Samples", cell[1], cell[2]>> : cell \in SamplesSheetFlags(workbook["Samples"])}

----------------------------------------------------------------------------
(* Inputs *)

MaxRows == 3

One == Some(RatInt(1))

Two == Some(RatInt(2))

\* the rows an input sheet is made of: QC and blank identifiers in several
\* spellings, ordinary samples, a padded identifier, an empty identifier
\* cell, an empty PPM cell and rows of another Sample Type
RowSet ==
    { Row(Some(<<"M", "D", "L">>), "Samples", One),
      Row(Some(<<"m", "d", "l">>), "Samples", Two),
      Row(Some(<<"C", "C", "V", "1">>), "Samples", Two),
      Row(Some(<<" ", "C", "C", "V", "1", " ">>), "Samples", One),
      Row(Some(<<"C", "C", "V">>), "Samples", One),
      Row(Some(<<"I", "C", "B">>), "Samples", One),
      Row(Some(<<"C", "C", "B", "1">>), "Samples", Two),
      Row(Some(<<"R", "i", "n", "s", "e">>), "Samples", One),
      Row(Some(<<"S", "1">>), "Samples", Two),
      Row(Some(<<" ", "S", "1", " ">>), "Samples", One),
      Row(Some(<<"S", "2">>), "Samples", NA),
      Row(NA, "Samples", One),
      Row(Some(<<"M", "D", "L">>), "Standard", Two),
      Row(Some(<<"I", "C", "B">>), "Standard", Two),
      Row(Some(<<"M", "D", "L", "2">>), "Samples", Two) }

Tables == UNION {[1..n -> RowSet] : n \in 0..MaxRows}

MaxWorkbookRows == 2

Tenth == Some(Rat(1, 10))

\* the rows of the input sheets of the workbook runs.  mdl alone recovers
\* 50 %, inside the MDL limits and outside the QC limits; CCV1 recovers 80 %
\* or 120 % from one row and 100 % from both; S1 has no %RPD from one row,
\* 0 % from two equal rows and 18.2 % from both; ICB is a blank; one row has
\* an empty identifier cell
WorkbookRowSet ==
    { Row(Some(<<"m", "d", "l">>), "Samples", Tenth),
      Row(Some(<<"C", "C", "V", "1">>), "Samples", Some(RatInt(8))),
      Row(Some(<<"C", "C", "V", "1">>), "Samples", Some(RatInt(12))),
      Row(Some(<<"I", "C", "B">>), "Samples", One),
      Row(Some(<<"S", "1">>), "Samples", Some(RatInt(10))),
      Row(Some(<<"S", "1">>), "Samples", Some(RatInt(12))),
      Row(NA, "Samples", One) }

\* Extract.extract_data hands over a frame only if it has a row
WorkbookTables == UNION {[1..n -> WorkbookRowSet] : n \in 1..MaxWorkbookRows}

TenthsSet ==
    {-10, 0, 99, 100, 101, 110, 440, 449, 450, 451, 899, 900, 901, 1000,
     1099, 1100, 1101, 1440, 1449, 1450, 1451, 1460}

\* the values a sheet cell can hold
CellValues ==
    {FloatCell(Fin(Rat(t, 10))) : t \in TenthsSet}
        \cup {FloatCell(NaN), FloatCell(Inf), FloatCell(NegInf), NoneCell, DatetimeCell}
        \cup {StrCell(str) : str \in {<<"a", "b", "c">>, << >>, <<" ">>, <<".">>,
                                      <<"9", "5">>, <<" ", "1", "2", "0", " ">>,
                                      <<"8", "9", ".", "9">>, <<"-", "5">>,
                                      <<"1", ".", "2", ".", "3">>, <<"1", "1">>,
                                      <<"1", "0">>, <<"1", "0", ".", "0">>}}

CheckTypes == {"QC_R", "MDL_R", "RPD", "qc_r", ""}

----------------------------------------------------------------------------
(* The state machine.  df is the frame the transformer holds; qc_df,        *)
(* samples_df and results_df hold what format_qc, format_samples and        *)
(* format_reported_results returned (or the exception they raised);         *)
(* grouped holds what sample_groups returned; value, check_type and oob      *)
(* are the arguments and the result of a call of is_out_of_bounds;          *)
(* qc_records holds what a direct call of build_qc_records returned.        *)
(* sheets is the workbook, flagged the cells the last run of export_all     *)
(* coloured, alert the exception that run showed ("none" without one).      *)

Pending == [exc |-> "pending", records |-> << >>]

NoGroups == [called |-> FALSE, samples_only |-> << >>, groups |-> << >>]

NotCalled == [exc |-> "pending", ret |-> FALSE]

SheetNames == {"QC", "Samples", "Reported Results"}

\* a sheet: the records below its header row and the cells whose font is red
NoSheet == [exists |-> FALSE, values |-> << >>, red |-> {}]

\* a workbook that has none of the three output sheets yet
NoWorkbook == [name \in SheetNames |-> NoSheet]

Init ==
    /\ df \in Tables
    /\ qc_df = Pending
    /\ samples_df = Pending
    /\ results_df = Pending
    /\ grouped = NoGroups
    /\ value = NoneCell
    /\ check_type = ""
    /\ oob = NotCalled
    /\ qc_records = Pending
    /\ sheets = NoWorkbook
    /\ flagged = {}
    /\ alert = "pending"

FormatQc ==
    /\ qc_df = Pending
    /\ qc_df' = [exc |-> "none", records |-> format_qc(df)]
    /\ UNCHANGED <<df, samples_df, results_df, grouped, value, check_type, oob,
                 qc_records, sheets, flagged, alert>>

FormatSamples ==
    /\ samples_df = Pending
    /\ samples_df' = format_samples(df)
    /\ UNCHANGED <<df, qc_df, results_df, grouped, value, check_type, oob,
                 qc_records, sheets, flagged, alert>>

FormatReportedResults ==
    /\ results_df = Pending
    /\ results_df' = format_reported_results(df)
    /\ UNCHANGED <<df, qc_df, samples_df, grouped, value, check_type, oob,
                 qc_records, sheets, flagged, alert>>

Next == FormatQc \/ FormatSamples \/ FormatReportedResults

Spec == Init /\ [][Next]_vars

\* the QC table alone, on every input table
NextQc == FormatQc

SpecQc == Init /\ [][NextQc]_vars

\* the grouper alone, on every input table
SampleGroups ==
    /\ ~grouped.called
    /\ grouped' = [called |-> TRUE,
                  samples_only |-> sample_groups(df).samples_only,
                  groups |-> sample_groups(df).groups]
    /\ UNCHANGED <<df, qc_df, samples_df, results_df, value, check_type, oob,
                 qc_records, sheets, flagged, alert>>

NextGroups == SampleGroups

SpecGroups == Init /\ [][NextGroups]_vars

\* build_qc_records called on a frame of any identifiers; the empty group of
\* a pd.NA identifier makes group_records[-1] raise IndexError
BuildQcRecords ==
    /\ qc_records = Pending
    /\ qc_records' =
            IF \E i \in 1..Len(df) : IsNA(df[i]["Sample ID"])
            THEN [exc |-> "IndexError", records |-> << >>]
            ELSE [exc |-> "none", records |-> build_qc_records(StripIds(df), FALSE)]
    /\ UNCHANGED <<df, qc_df, samples_df, results_df, grouped, value, check_type, oob,
                   sheets, flagged, alert>>

\* the target resolution: build_qc_records called directly and from format_qc
NextTargets == BuildQcRecords \/ FormatQc

SpecTargets == Init /\ [][NextTargets]_vars

\* runs of the add-in against one workbook: every run reads a fresh input
\* sheet, builds a new Transform and a new Load, and calls export_all
InitWorkbook ==
    /\ df = << >>
    /\ qc_df = Pending
    /\ samples_df = Pending
    /\ results_df = Pending
    /\ grouped = NoGroups
    /\ value = NoneCell
    /\ check_type = ""
    /\ oob = NotCalled
    /\ qc_records = Pending
    /\ sheets = NoWorkbook
    /\ flagged = {}
    /\ alert = "pending"

\* one run: df is the frame read for it, qc_df, samples_df and results_df
\* are the tables write_sheets built in it
ExportAll ==
    \E rows \in WorkbookTables :
        \E built \in {BuildTables(rows)} :
            \E written \in {write_sheets(sheets, built)} :
                /\ qc_df' = built.qc_df
                /\ samples_df' = built.samples_df
                /\ results_df' = built.results_df
                /\ IF written.exc # "none"
                   THEN /\ sheets' = sheets
                        /\ flagged' = {}
                        /\ alert' = written.exc
                   ELSE /\ sheets' = apply_formatting(written.workbook)
                        /\ flagged' = FlagsOf(written.workbook)
                        /\ alert' = "none"
                /\ UNCHANGED <<df, grouped, value, check_type, oob, qc_records>>

NextWorkbook == ExportAll

SpecWorkbook == InitWorkbook /\ [][NextWorkbook]_vars

\* the bounds checker alone, on every cell value and check type
InitBounds ==
    /\ df = << >>
    /\ qc_df = Pending
    /\ samples_df = Pending
    /\ results_df = Pending
    /\ grouped = NoGroups
    /\ value \in CellValues
    /\ check_type \in CheckTypes
    /\ oob = NotCalled
    /\ qc_records = Pending
    /\ sheets = NoWorkbook
    /\ flagged = {}
    /\ alert = "pending"

IsOutOfBounds ==
    /\ oob = NotCalled
    /\ oob' = is_out_of_bounds(value, check_type)
    /\ UNCHANGED <<df, qc_df, samples_df, results_df, grouped, value, check_type,
                 qc_records, sheets, flagged, alert>>

NextBounds == IsOutOfBounds

SpecBounds == InitBounds /\ [][NextBounds]_vars

----------------------------------------------------------------------------
(* Properties *)

\* value < bound and value > bound, for a finite or infinite float
Below(f, bound) == f.tag = "-inf" \/ (f.tag = "fin" /\ f.num.n < bound * f.num.d)

Above(f, bound) == f.tag = "inf" \/ (f.tag = "fin" /\ f.num.n > bound * f.num.d)

Flagged(conv, ct) ==
    /\ conv.exc = "none"
    /\ \/ ct = "QC_R" /\ (Below(conv.val, 90) \/ Above(conv.val, 110))
       \/ ct = "MDL_R" /\ (Below(conv.val, 45) \/ Above(conv.val, 145))
       \/ ct = "RPD" /\ Above(conv.val, 10)

IntCell(k) == FloatCell(Fin(RatInt(k)))

\* C1: is_out_of_bounds(value, check_type) never raises and returns true
\* exactly when value converts to a number v with (QC_R and (v < 90 or
\* v > 110)) or (MDL_R and (v < 45 or v > 145)) or (RPD and v > 10); the
\* limits 90, 110, 45, 145 and 10 themselves are in bounds, 146 and 144
\* under MDL_R are out and in, 11 under RPD is out, and a value that does
\* not convert or another check type gives false.
C1_IsOutOfBounds ==
    oob # NotCalled =>
        /\ oob.exc = "none"
        /\ oob.ret <=> Flagged(ToFloat(value), check_type)
        /\ (value \in {IntCell(90), IntCell(110)} /\ check_type = "QC_R") => ~oob.ret
        /\ (value \in {IntCell(45), IntCell(145)} /\ check_type = "MDL_R") => ~oob.ret
        /\ (value = IntCell(10) /\ check_type = "RPD") => ~oob.ret
        /\ (value = IntCell(146) /\ check_type = "MDL_R") => oob.ret
        /\ (value = IntCell(144) /\ check_type = "MDL_R") => ~oob.ret
        /\ (value = FloatCell(Fin(Rat(899, 10))) /\ check_type = "QC_R") => oob.ret
        /\ (value = StrCell(<<"1", "1">>) /\ check_type = "RPD") => oob.ret
        /\ value.kind \in {"NoneType", "datetime"} => ~oob.ret
        /\ value = StrCell(<<"a", "b", "c">>) => ~oob.ret
        /\ check_type \notin {"QC_R", "MDL_R", "RPD"} => ~oob.ret

\* a numeric string above the RPD limit has been checked and flagged
C1_Witness ==
    /\ oob # NotCalled
    /\ value = StrCell(<<"1", "1">>)
    /\ check_type = "RPD"
    /\ oob.ret

\* position of the first row of rows that carries identifier id
FirstIndex(rows, id) ==
    CHOOSE i \in 1..Len(rows) :
        /\ rows[i]["Sample ID"] = id
        /\ \A j \in 1..(i - 1) : rows[j]["Sample ID"] # id

RECURSIVE IsSubSequence(_, _)
IsSubSequence(a, b) ==
    IF a = << >> THEN TRUE
    ELSE IF b = << >> THEN FALSE
    ELSE IF Head(a) = Head(b) THEN IsSubSequence(Tail(a), Tail(b))
    ELSE IsSubSequence(a, Tail(b))

IdSet(rows) == {rows[i]["Sample ID"] : i \in 1..Len(rows)}

\* groups are in first-seen order of their identifiers over rows, one
\* group per distinct identifier, rows of a group carry its identifier and
\* keep their order
FirstSeenGroups(groups, rows) ==
    /\ {groups[k].sample_id : k \in 1..Len(groups)} = IdSet(rows)
    /\ Len(groups) = Cardinality(IdSet(rows))
    /\ \A j, k \in 1..Len(groups) :
            j < k => FirstIndex(rows, groups[j].sample_id)
                        < FirstIndex(rows, groups[k].sample_id)
    /\ \A k \in 1..Len(groups) :
            /\ \A i \in 1..Len(groups[k].group_df) :
                    groups[k].group_df[i]["Sample ID"] = groups[k].sample_id
            /\ IsSubSequence(groups[k].group_df, rows)

\* C2: the groups of get_unique_ordered_ids followed by build_sample_groups
\* appear in the order in which their identifiers first occur in the table,
\* every distinct identifier yields exactly one group, every row of a group
\* has the group's identifier, and the rows of a group keep their relative
\* order.
C2_FirstSeenOrder ==
    grouped.called => FirstSeenGroups(grouped.groups, grouped.samples_only)

\* S2 first seen before S1, and S1 with two rows
C2_Witness ==
    /\ grouped.called
    /\ Len(grouped.groups) = 2
    /\ grouped.groups[1].sample_id = Some(<<"S", "2">>)
    /\ grouped.groups[2].sample_id = Some(<<"S", "1">>)
    /\ Len(grouped.groups[2].group_df) = 2

RECURSIVE GroupOffset(_, _)
\* number of rows in the groups before group k
GroupOffset(groups, k) ==
    IF k = 1 THEN 0
    ELSE GroupOffset(groups, k - 1) + Len(groups[k - 1].group_df)

\* the row of the Samples table on which group k ends
LastRowOf(groups, k) == GroupOffset(groups, k) + Len(groups[k].group_df)

SummaryIs(rec, group_df) ==
    /\ rec["Mean ppm C"] = calculate_mean_ppm(group_df)
    /\ rec["%RPD"] = calculate_rpd(group_df, calculate_mean_ppm(group_df))
    /\ rec["umol/L C"] =
            convert_to_umol_per_L(calculate_mean_ppm(group_df), molecular_weight)

NoSummary(rec) ==
    IsNA(rec["Mean ppm C"]) /\ IsNA(rec["%RPD"]) /\ IsNA(rec["umol/L C"])

\* C3: the Samples table built from N sample groups has one row per row of
\* the non-QC samples, the summary (Mean ppm C, %RPD, umol/L C) of every
\* group is on the last row of that group, every other row of the group has
\* null summary fields, and so exactly N rows carry a summary.
C3_SummaryOnLastRow ==
    samples_df # Pending =>
        LET sg == sample_groups(df)
            recs == samples_df.records
        IN  /\ samples_df.exc = "none"
            /\ Len(recs) = Len(sg.samples_only)
            /\ \A k \in 1..Len(sg.groups) :
                    LET group_df == sg.groups[k].group_df
                    IN  /\ Len(group_df) >= 1
                        /\ \A j \in 1..Len(group_df) :
                            LET rec == recs[GroupOffset(sg.groups, k) + j]
                            IN  /\ rec["Sample ID"] = group_df[j]["Sample ID"]
                                /\ rec["PPM C"] = group_df[j]["PPM"]
                                /\ IF j = Len(group_df)
                                   THEN SummaryIs(rec, group_df)
                                   ELSE NoSummary(rec)
            /\ Cardinality({LastRowOf(sg.groups, k) : k \in 1..Len(sg.groups)})
                    = Len(sg.groups)

\* C4: the Reported Results table has one row per non-QC sample group, in
\* first-seen order of the identifiers, each row holds only the identifier
\* and the group's umol/L C, and that value is the one the Samples table
\* carries on the last row of the group.
C4_ReportedResults ==
    results_df # Pending =>
        LET sg == sample_groups(df)
            recs == results_df.records
        IN  /\ results_df.exc = "none"
            /\ FirstSeenGroups(sg.groups, sg.samples_only)
            /\ Len(recs) = Len(sg.groups)
            /\ \A k \in 1..Len(recs) :
                    /\ DOMAIN recs[k] = {"Sample ID", "umol/L C"}
                    /\ recs[k]["Sample ID"] = sg.groups[k].sample_id
                    /\ recs[k]["umol/L C"] =
                            convert_to_umol_per_L(
                                calculate_mean_ppm(sg.groups[k].group_df), molecular_weight)
            /\ samples_df # Pending =>
                    /\ samples_df.exc = "none"
                    /\ \A k \in 1..Len(recs) :
                            /\ Len(sg.groups[k].group_df) >= 1
                            /\ samples_df.records[LastRowOf(sg.groups, k)]["umol/L C"]
                                    = recs[k]["umol/L C"]

\* The categories of the specification, by the upper-cased identifier
HasDigitsAfter(u, prefix) ==
    /\ Len(u) > Len(prefix)
    /\ SubSeq(u, 1, Len(prefix)) = prefix
    /\ \A i \in (Len(prefix) + 1)..Len(u) : u[i] \in Digits

\* MDL, ICV or CCVn
IsQcId(cell) ==
    /\ ~IsNA(cell)
    /\ \/ StrUpper(cell[1]) \in {<<"M", "D", "L">>, <<"I", "C", "V">>}
       \/ HasDigitsAfter(StrUpper(cell[1]), <<"C", "C", "V">>)

\* ICB or CCBn
IsQcbId(cell) ==
    /\ ~IsNA(cell)
    /\ \/ StrUpper(cell[1]) = <<"I", "C", "B">>
       \/ HasDigitsAfter(StrUpper(cell[1]), <<"C", "C", "B">>)

IsRinseId(cell) == ~IsNA(cell) /\ StrUpper(cell[1]) = <<"R", "I", "N", "S", "E">>

\* the rows of Sample Type "Samples", identifiers trimmed
TypedSamples(rows) ==
    LET IsSamples(r) == r["Sample Type"] = Some("Samples")
        kept == SelectSeq(rows, IsSamples)
    IN  [i \in 1..Len(kept) |->
            [kept[i] EXCEPT !["Sample ID"] = IF IsNA(@) THEN NA ELSE Some(StrStrip(@[1]))]]

QcRows(rows) ==
    LET Qc(r) == IsQcId(r["Sample ID"])
    IN  SelectSeq(TypedSamples(rows), Qc)

QcbRows(rows) ==
    LET Qcb(r) == IsQcbId(r["Sample ID"])
    IN  SelectSeq(TypedSamples(rows), Qcb)

\* the (Sample ID, PPM) pairs of the rows of recs[from..to] that carry id
PairsOf(recs, from, to, id, ppm_col) ==
    LET HasId(r) == r["Sample ID"] = id
        kept == SelectSeq(SubSeq(recs, from, to), HasId)
    IN  [i \in 1..Len(kept) |-> <<kept[i]["Sample ID"], kept[i][ppm_col]>>]

NoQcSummary(rec) == IsNA(rec["Mean ppm C"]) /\ IsNA(rec["%R"]) /\ IsNA(rec["%RPD"])

\* C5: the QC table is the per-row records of every QC group (MDL, ICV,
\* CCVn) in first-seen order, each group contiguous and only its last row
\* carrying Mean ppm C, %R and %RPD; then one all-null separator; then one
\* record per QCB row (ICB, CCBn) with null Mean ppm C, %R and %RPD; then
\* one final record whose Sample ID is "Average".
C5_QcTableLayout ==
    qc_df # Pending =>
        LET recs == qc_df.records
            qc == QcRows(df)
            qcb == QcbRows(df)
            n == Len(qc)
            m == Len(qcb)
            Id(i) == recs[i]["Sample ID"]
            LastOfGroup(i) == i = n \/ Id(i + 1) # Id(i)
            GroupOf(id) == LET HasId(r) == r["Sample ID"] = id IN SelectSeq(qc, HasId)
        IN  /\ qc_df.exc = "none"
            /\ Len(recs) = n + m + 2
            /\ \A i \in 1..n : IsQcId(Id(i))
            /\ \A i, j, k \in 1..n : (i < j /\ j < k /\ Id(i) = Id(k)) => Id(j) = Id(i)
            /\ \A i, j \in 1..n :
                    (i < j /\ Id(i) # Id(j)) => FirstIndex(qc, Id(i)) < FirstIndex(qc, Id(j))
            /\ \A id \in IdSet(qc) :
                    PairsOf(recs, 1, n, id, "PPM C") = PairsOf(qc, 1, n, id, "PPM")
            /\ \A i \in 1..n :
                    IF LastOfGroup(i)
                    THEN /\ recs[i]["Mean ppm C"] = calculate_mean_ppm(GroupOf(Id(i)))
                         /\ recs[i]["%R"] =
                                calculate_percent_R(GroupOf(Id(i)), QcTarget(Id(i)[1]))
                         /\ recs[i]["%RPD"] =
                                calculate_rpd(GroupOf(Id(i)), calculate_mean_ppm(GroupOf(Id(i))))
                    ELSE NoQcSummary(recs[i])
            /\ \A c \in QcColumns : IsNA(recs[n + 1][c])
            /\ \A j \in 1..m :
                    /\ recs[n + 1 + j]["Sample ID"] = qcb[j]["Sample ID"]
                    /\ recs[n + 1 + j]["PPM C"] = qcb[j]["PPM"]
                    /\ NoQcSummary(recs[n + 1 + j])
            /\ recs[n + m + 2]["Sample ID"] = Some(AverageId)

\* a QC group of two rows whose summary sits on its second row, one QCB row
C5_Witness ==
    /\ qc_df # Pending
    /\ Len(qc_df.records) = 5
    /\ qc_df.records[1]["Sample ID"] = Some(<<"C", "C", "V", "1">>)
    /\ qc_df.records[2]["Sample ID"] = Some(<<"C", "C", "V", "1">>)
    /\ IsNA(qc_df.records[1]["Mean ppm C"])
    /\ qc_df.records[2]["Mean ppm C"] = Some(Rat(3, 2))
    /\ qc_df.records[4]["Sample ID"] = Some(<<"I", "C", "B">>)

\* C6: the trailing "Average" record holds in PPM C the mean of the PPM
\* values of all QCB rows pooled together, and its Mean ppm C, %R, %RPD and
\* Bounds are null; for the QCB rows ICB=1 and CCB1=2 it is 1.5.
C6_PooledAverage ==
    qc_df # Pending =>
        LET last == qc_df.records[Len(qc_df.records)]
            qcb == QcbRows(df)
            vals == PpmValues(qcb)
        IN  /\ last["Sample ID"] = Some(AverageId)
            /\ last["PPM C"] =
                    IF vals = << >> THEN NA
                    ELSE Some(RatDiv(RatSum(vals), RatInt(Len(vals))))
            /\ \A c \in {"Mean ppm C", "%R", "%RPD", "Bounds"} : IsNA(last[c])
            /\ (Len(qcb) = 2
                    /\ <<qcb[1]["Sample ID"], qcb[1]["PPM"]>> = <<Some(<<"I", "C", "B">>), One>>
                    /\ <<qcb[2]["Sample ID"], qcb[2]["PPM"]>>
                            = <<Some(<<"C", "C", "B", "1">>), Two>>)
                    => last["PPM C"] = Some([n |-> 3, d |-> 2])

\* the QCB rows are ICB=1 and CCB1=2 and the Average record holds 1.5
C6_Witness ==
    /\ qc_df # Pending
    /\ Len(df) = 2
    /\ df[1] = Row(Some(<<"I", "C", "B">>), "Samples", One)
    /\ df[2] = Row(Some(<<"C", "C", "B", "1">>), "Samples", Two)
    /\ qc_df.records[Len(qc_df.records)]["PPM C"] = Some([n |-> 3, d |-> 2])

\* C7: in the QC table and in the Samples table the Bounds text is placed
\* exactly once, on the first data row, whenever the table has at least one
\* QC group or sample group; every other record has a null Bounds field,
\* also when the first group has a single row.
C7_BoundsOnce ==
    /\ qc_df # Pending =>
            LET recs == qc_df.records
            IN  /\ qc_df.exc = "none"
                /\ QcRows(df) # << >> => recs[1]["Bounds"] = Some(QcBoundsText)
                /\ QcRows(df) = << >> => IsNA(recs[1]["Bounds"])
                /\ \A i \in 2..Len(recs) : IsNA(recs[i]["Bounds"])
    /\ samples_df # Pending =>
            LET recs == samples_df.records
            IN  /\ samples_df.exc = "none"
                /\ sample_groups(df).groups # << >> =>
                        /\ recs # << >>
                        /\ recs[1]["Bounds"] = Some(SamplesBoundsText)
                /\ \A i \in 2..Len(recs) : IsNA(recs[i]["Bounds"])

IsExcludedId(cell) == IsQcId(cell) \/ IsQcbId(cell) \/ IsRinseId(cell)

TrimmedId(r) == IF IsNA(r["Sample ID"]) THEN NA ELSE Some(StrStrip(r["Sample ID"][1]))

Occurs(recs, id) == \E k \in 1..Len(recs) : recs[k]["Sample ID"] = id

\* position of the separator of the QC table: its only record without an
\* identifier
SeparatorAt(recs) == CHOOSE i \in 1..Len(recs) : IsNA(recs[i]["Sample ID"])

\* s and s.upper() are matched alike by pattern p
SameUnderUpper(p, cell) ==
    IsNA(cell) \/ (ReMatch(p, cell[1]) <=> ReMatch(p, StrUpper(cell[1])))

\* C8: classification by the trimmed identifier is case-insensitive and
\* full-string: s and s.upper() match the same patterns; an identifier is
\* excluded from the Samples and Reported Results tables exactly when it is
\* MDL, ICV, ICB, CCV plus digits, CCB plus digits or Rinse in any case;
\* only MDL/ICV/CCVn rows are in the QC section, only ICB/CCBn rows in the
\* QCB section, and a Rinse row is in none of the three tables.
C8_Classification ==
    /\ \A i \in 1..Len(df) :
            /\ SameUnderUpper(qc_pattern, TrimmedId(df[i]))
            /\ SameUnderUpper(qc_mask_pattern, TrimmedId(df[i]))
            /\ SameUnderUpper(qcb_mask_pattern, TrimmedId(df[i]))
    /\ results_df # Pending =>
            /\ \A i \in 1..Len(df) :
                    Occurs(results_df.records, TrimmedId(df[i]))
                        <=> ~IsExcludedId(TrimmedId(df[i]))
    /\ (samples_df # Pending /\ samples_df.exc = "none") =>
            /\ \A i \in 1..Len(df) :
                    Occurs(samples_df.records, TrimmedId(df[i]))
                        <=> ~IsExcludedId(TrimmedId(df[i]))
    /\ qc_df # Pending =>
            LET recs == qc_df.records
                sep == SeparatorAt(recs)
            IN  /\ \A i \in 1..(sep - 1) : IsQcId(recs[i]["Sample ID"])
                /\ \A i \in (sep + 1)..(Len(recs) - 1) : IsQcbId(recs[i]["Sample ID"])
                /\ \A i \in 1..Len(df) :
                        df[i]["Sample Type"] = Some("Samples") =>
                            /\ IsQcId(TrimmedId(df[i]))
                                <=> Occurs(SubSeq(recs, 1, sep - 1), TrimmedId(df[i]))
                            /\ IsQcbId(TrimmedId(df[i]))
                                <=> Occurs(SubSeq(recs, sep + 1, Len(recs) - 1),
                                           TrimmedId(df[i]))
                /\ \A i \in 1..Len(recs) : ~IsRinseId(recs[i]["Sample ID"])

\* a lower-case mdl row is in the QC section, CCV without digits is a
\* reported sample, and the Rinse row is in no table
C8_Witness ==
    /\ Len(df) = 3
    /\ df[1]["Sample ID"] = Some(<<"m", "d", "l">>)
    /\ df[2]["Sample ID"] = Some(<<"C", "C", "V">>)
    /\ df[3]["Sample ID"] = Some(<<"R", "i", "n", "s", "e">>)
    /\ qc_df # Pending /\ results_df # Pending /\ samples_df # Pending
    /\ qc_df.records[1]["Sample ID"] = Some(<<"m", "d", "l">>)
    /\ Len(results_df.records) = 1
    /\ results_df.records[1]["Sample ID"] = Some(<<"C", "C", "V">>)
    /\ Len(samples_df.records) = 1

OnlyTypeSamples(rows) ==
    LET IsSamples(r) == r["Sample Type"] = Some("Samples")
    IN  SelectSeq(rows, IsSamples)

\* C9: only rows whose Sample Type is exactly "Samples" are eligible for the
\* QC table: a row with a QC or QCB identifier and another Sample Type adds
\* no record to the QC table and counts in no group mean, %R, %RPD or in
\* the Average, and it is absent from the Samples and Reported Results
\* tables as well.
C9_SampleTypeFilter ==
    /\ qc_df # Pending =>
            /\ qc_df.records = format_qc(OnlyTypeSamples(df))
            /\ Len(qc_df.records) = Len(QcRows(df)) + Len(QcbRows(df)) + 2
    /\ \A i \in 1..Len(df) :
            (df[i]["Sample Type"] # Some("Samples")
                /\ (IsQcId(TrimmedId(df[i])) \/ IsQcbId(TrimmedId(df[i])))) =>
                    /\ ~Occurs(samples_df.records, TrimmedId(df[i]))
                    /\ ~Occurs(results_df.records, TrimmedId(df[i]))
                    /\ ~Occurs(TypedSamples(df), TrimmedId(df[i]))
                            => ~Occurs(qc_df.records, TrimmedId(df[i]))

\* an MDL row of type Samples with PPM 1 and an MDL row of another type with
\* PPM 2: the QC table has the one MDL record, with mean 1
C9_Witness ==
    /\ Len(df) = 2
    /\ df[1] = Row(Some(<<"M", "D", "L">>), "Samples", One)
    /\ df[2] = Row(Some(<<"M", "D", "L">>), "Standard", Two)
    /\ qc_df # Pending
    /\ Len(qc_df.records) = 3
    /\ qc_df.records[1]["Mean ppm C"] = One

NoQcRow(rows) == QcRows(rows) = << >> /\ QcbRows(rows) = << >>

NoSampleRow(rows) == \A i \in 1..Len(rows) : IsExcludedId(TrimmedId(rows[i]))

\* C10 as stated: with no row eligible for a table, format_qc,
\* format_samples and format_reported_results each return a table with zero
\* records and raise no error.
C10_EmptyTables ==
    /\ (qc_df # Pending /\ NoQcRow(df)) =>
            qc_df.exc = "none" /\ qc_df.records = << >>
    /\ (samples_df # Pending /\ NoSampleRow(df)) =>
            samples_df.exc = "none" /\ samples_df.records = << >>
    /\ (results_df # Pending /\ NoSampleRow(df)) =>
            results_df.exc = "none" /\ results_df.records = << >>

\* C10 amended: with no row eligible for a table, no error is raised;
\* format_samples and format_reported_results return zero records, and
\* format_qc returns exactly two records, the all-null separator and the
\* "Average" record.
C10_EmptyInput ==
    /\ (qc_df # Pending /\ NoQcRow(df)) =>
            /\ qc_df.exc = "none"
            /\ Len(qc_df.records) = 2
            /\ \A c \in QcColumns : IsNA(qc_df.records[1][c])
            /\ qc_df.records[2]["Sample ID"] = Some(AverageId)
            /\ \A c \in {"Mean ppm C", "%R", "%RPD", "Bounds"} : IsNA(qc_df.records[2][c])
    /\ (samples_df # Pending /\ NoSampleRow(df)) =>
            samples_df.exc = "none" /\ samples_df.records = << >>
    /\ (results_df # Pending /\ NoSampleRow(df)) =>
            results_df.exc = "none" /\ results_df.records = << >>

\* the three tables of an input without any row
C10_Witness ==
    /\ df = << >>
    /\ qc_df # Pending /\ samples_df # Pending /\ results_df # Pending
    /\ Len(qc_df.records) = 2
    /\ samples_df.records = << >>
    /\ results_df.records = << >>

HasNullId(rows) == \E i \in 1..Len(rows) : IsNA(rows[i]["Sample ID"])

\* C11: for a cleaned table with a row whose Sample ID is null,
\* sample_groups, format_samples and format_reported_results complete
\* without an exception, every group produced is non-empty, and the
\* null-identifier rows are in the Samples table with their PPM value.
C11_NullIdRetained ==
    HasNullId(df) =>
        LET sg == sample_groups(df)
            NullId(r) == IsNA(r["Sample ID"])
            nulls == SelectSeq(clean_data(df), NullId)
            NonEmptyGroups == \A k \in 1..Len(sg.groups) : Len(sg.groups[k].group_df) >= 1
        IN  /\ results_df # Pending => results_df.exc = "none" /\ NonEmptyGroups
            /\ samples_df # Pending =>
                    /\ samples_df.exc = "none"
                    /\ NonEmptyGroups
                    /\ \A i \in 1..Len(nulls) :
                            \E k \in 1..Len(samples_df.records) :
                                /\ IsNA(samples_df.records[k]["Sample ID"])
                                /\ samples_df.records[k]["PPM C"] = nulls[i]["PPM"]

\* the target of the specification: MDL 0.2, ICV 18.0, CCV prefix 10.0,
\* by the upper-cased identifier; null otherwise
TargetOf(id) ==
    LET u == StrUpper(id)
    IN  IF u = <<"M", "D", "L">> THEN Some([n |-> 1, d |-> 5])
        ELSE IF u = <<"I", "C", "V">> THEN Some([n |-> 18, d |-> 1])
        ELSE IF Len(u) >= 3 /\ <<u[1], u[2], u[3]>> = <<"C", "C", "V">>
             THEN Some([n |-> 10, d |-> 1])
        ELSE NA

\* the records recs[1..n] are groups of equal identifiers; on the last
\* record of each group %R is the mean as a percentage of the group's
\* target, and null when the group has no target
RecoveryByTarget(recs, n) ==
    \A i \in 1..n :
        (i = n \/ recs[i + 1]["Sample ID"] # recs[i]["Sample ID"]) =>
            LET target == TargetOf(recs[i]["Sample ID"][1])
                mean == recs[i]["Mean ppm C"]
            IN  IF IsNA(target) \/ IsNA(mean) THEN IsNA(recs[i]["%R"])
                ELSE /\ ~IsNA(recs[i]["%R"])
                     /\ RatMul(recs[i]["%R"][1], target[1]) = RatMul(mean[1], RatInt(100))

\* C12: build_qc_records resolves the %R target of a group from its
\* identifier case-insensitively: MDL 0.2, ICV 18.0, an identifier starting
\* with CCV 10.0, any other identifier a null target and so a null %R; every
\* group of the QC section of format_qc has a non-null target.
C12_TargetResolution ==
    /\ (qc_records # Pending /\ qc_records.exc = "none") =>
            RecoveryByTarget(qc_records.records, Len(qc_records.records))
    /\ qc_df # Pending =>
            LET recs == qc_df.records
                n == SeparatorAt(recs) - 1
            IN  /\ RecoveryByTarget(recs, n)
                /\ \A i \in 1..n : ~IsNA(TargetOf(recs[i]["Sample ID"][1]))

\* a direct call on the groups mdl, CCV and S1, each with one value: 1000 %
\* of 0.2, 10 % of 10.0, and no %R for S1
C12_Witness ==
    /\ qc_records # Pending
    /\ Len(qc_records.records) = 3
    /\ qc_records.records[1]["Sample ID"] = Some(<<"m", "d", "l">>)
    /\ qc_records.records[1]["%R"] = Some([n |-> 1000, d |-> 1])
    /\ qc_records.records[2]["Sample ID"] = Some(<<"C", "C", "V">>)
    /\ qc_records.records[2]["%R"] = Some([n |-> 10, d |-> 1])
    /\ qc_records.records[3]["Sample ID"] = Some(<<"S", "1">>)
    /\ ~IsNA(qc_records.records[3]["Mean ppm C"])
    /\ IsNA(qc_records.records[3]["%R"])

\* "MDL" occurs in the upper-cased identifier of a QC sheet row
HasMdl(id) ==
    /\ ~IsNA(id)
    /\ \E k \in 1..(Len(id[1]) - 2) :
            <<CharUpper(id[1][k]), CharUpper(id[1][k + 1]), CharUpper(id[1][k + 2])>>
                = <<"M", "D", "L">>

\* the rational v is outside lo..hi
Outside(v, lo, hi) == v.n < lo * v.d \/ v.n > hi * v.d

\* the data rows of the QC sheet whose %R is out of bounds: 45..145 for a
\* row with MDL in its identifier, 90..110 for any other row
QcOutOfBounds(values) ==
    {k \in 1..Len(values) :
        /\ ~IsNA(values[k]["%R"])
        /\ IF HasMdl(values[k]["Sample ID"])
           THEN Outside(values[k]["%R"][1], 45, 145)
           ELSE Outside(values[k]["%R"][1], 90, 110)}

\* the data rows of the Samples sheet whose %RPD is above 10
SamplesOutOfBounds(values) ==
    {k \in 1..Len(values) :
        /\ ~IsNA(values[k]["%RPD"])
        /\ values[k]["%RPD"][1].n > 10 * values[k]["%RPD"][1].d}

\* the cells a run has to colour, record k being on sheet row k + 1
ExpectedFlags(workbook) ==
    {<<"QC", k + 1, "%R">> : k \in QcOutOfBounds(workbook["QC"].values)}
        \cup {<<"Samples", k + 1, "%RPD">> :
                k \in SamplesOutOfBounds(workbook["Samples"].values)}

\* C13: after apply_formatting the cells coloured red by the run are exactly
\* the data-row cells of the %R column of the QC sheet and of the %RPD
\* column of the Samples sheet whose value is non-null and out of bounds
\* under MDL_R for a QC row with "MDL" in its identifier, QC_R for any other
\* QC row and RPD for a Samples row; a cell with a null value (a non-last
\* row of a group, the separator, a QCB row, the Average row) is never
\* coloured, and no cell of the Reported Results sheet is.
C13_RedFlagging ==
    alert = "none" =>
        /\ sheets["QC"].values = qc_df.records
        /\ sheets["Samples"].values = samples_df.records
        /\ flagged = ExpectedFlags(sheets)
        /\ \A cell \in flagged : <<cell[2], cell[3]>> \in sheets[cell[1]].red
        /\ \A cell \in flagged :
                /\ cell[1] \in {"QC", "Samples"}
                /\ cell[2] \in 2..(Len(sheets[cell[1]].values) + 1)
                /\ ~IsNA(sheets[cell[1]].values[cell[2] - 1][cell[3]])
        /\ LET recs == sheets["QC"].values
           IN  \A k \in SeparatorAt(recs)..Len(recs) : <<"QC", k + 1, "%R">> \notin flagged

\* the QC sheet holds mdl with 50 % and CCV1 with 80 %: the run coloured the
\* %R cell of the CCV1 row and left the one of the mdl row
C13_Witness ==
    /\ alert = "none"
    /\ Len(sheets["QC"].values) = 4
    /\ sheets["QC"].values[1]["Sample ID"] = Some(<<"m", "d", "l">>)
    /\ sheets["QC"].values[1]["%R"] = Some([n |-> 50, d |-> 1])
    /\ sheets["QC"].values[2]["Sample ID"] = Some(<<"C", "C", "V", "1">>)
    /\ sheets["QC"].values[2]["%R"] = Some([n |-> 80, d |-> 1])
    /\ flagged = {<<"QC", 3, "%R">>}

\* C14: after any sequence of export_all runs against one workbook the
\* contents of the QC, Samples and Reported Results sheets and the set of
\* red cells are those of the last run alone: the sheets hold the tables of
\* the last run and no row of an earlier, longer table, and a cell is red
\* only if the last run coloured it.
C14_NoStateLeak ==
    alert = "none" =>
        /\ sheets["QC"].values = qc_df.records
        /\ sheets["Samples"].values = samples_df.records
        /\ sheets["Reported Results"].values = results_df.records
        /\ \A name \in DOMAIN sheets :
                \A cell \in sheets[name].red : <<name, cell[1], cell[2]>> \in flagged

====
